---------------------------- MODULE Spec2Model ----------------------------
(***************************************************************************)
(* A model of the WikipediaSCOTUS pipeline:                                *)
(*   - caseCollector.py: template scanner, markup cleaner, identifier      *)
(*     extractor and the parallel collection of rows;                      *)
(*   - extract.py: record normalizer and the citation/docket matching      *)
(*     engine.                                                             *)
(*                                                                         *)
(* A Python str is a sequence of characters; a character is a one-letter   *)
(* string.  Three characters have names here because the module is ASCII:  *)
(* "ndash" is U+2013, "mdash" is U+2014, and "\n" "\t" are newline and tab.*)
(* Python's None is the empty tuple <<>>, and an optional integer n is     *)
(* <<n>>.                                                                  *)
(***************************************************************************)
EXTENDS Integers, Sequences, FiniteSets, TLC

VARIABLES
    \* --- extract.py main(): the matching engine
    wiki,            \* the wiki DataFrame: a sequence of rows (records)
    scdb,            \* the SCDB DataFrame: a sequence of rows (records)
    scdb_by_us,      \* dict: usCite_norm -> positions of the rows of the group
    scdb_by_docket,  \* dict: docket_norm -> positions of the rows of the group
    matched_rows,    \* list of merged dicts
    unmatched_rows,  \* list of wiki dicts
    row,             \* number of wiki rows the loop has processed
    chosen,          \* the loop's local: <<>> (None) or <<position in scdb>>
    mpc,             \* where main() is: "load", "loop", "done", or "off"
    \* --- a call of one pure function (normalizers, scanner, extractor)
    fn,              \* the function called, "idle" before the call
    arg,             \* its argument
    res,             \* the results of its successive applications
    \* --- caseCollector.py main(): parallel collection
    pages,           \* the sorted list of page titles
    batch_state,     \* per submitted batch: "queued" ... "collected"
    batch_rows,      \* per batch future: what process_batch returned/raised
    all_rows,        \* list of (title, us, docket)
    pv_state,        \* per submitted pageview future: "queued" ... "collected"
    pv_result,       \* per pageview future: the 4-tuple get_pageviews returned
    final_rows,      \* list of [t, us, dock, v_all, v_yr, v_6, v_1]
    cpc              \* where main() is: "submit_batches", "collect_batches",
                     \* "submit_pageviews", "collect_pageviews", "done",
                     \* "failed" (left on an exception), or "off"

matchVars   == <<wiki, scdb, scdb_by_us, scdb_by_docket, matched_rows,
                 unmatched_rows, row, chosen, mpc>>
callVars    == <<fn, arg, res>>
collectVars == <<pages, batch_state, batch_rows, all_rows, pv_state,
                 pv_result, final_rows, cpc>>
vars        == <<matchVars, callVars, collectVars>>

-----------------------------------------------------------------------------
(* Characters and Python str primitives                                    *)

\* A character outside ASCII is written by a name: "ndash" and "mdash" are
\* U+2013 and U+2014, "vtab" is \x0b, "x1c".."x1f" and "x85" the control
\* characters, "nbsp" U+00A0, "u1680".."u3000" the Unicode spaces,
\* "arabic0".."arabic9" the Arabic-Indic digits U+0660..U+0669, "sup2" the
\* superscript two U+00B2, "longs" U+017F, "kelvin" U+212A, "dotI" U+0130,
\* "dotlessi" U+0131 and "eacute" U+00E9.

\* [0-9] of a character class
AsciiDigits == {"0", "1", "2", "3", "4", "5", "6", "7", "8", "9"}

\* the decimal digits outside ASCII (category Nd), the Arabic-Indic ones
\* standing for every script
ArabicDigits == {"arabic0", "arabic1", "arabic2", "arabic3", "arabic4",
                 "arabic5", "arabic6", "arabic7", "arabic8", "arabic9"}

\* \d of the re module on str patterns, and the digits int() converts
Digits == AsciiDigits \cup ArabicDigits

\* the characters str.isdigit() accepts and int() rejects
SuperDigits == {"sup2"}

\* the letters outside ASCII that re.I equates with an ASCII letter
FoldedLetters == {"longs", "kelvin", "dotI", "dotlessi"}

\* the other letters outside ASCII, "eacute" (U+00E9) standing for all
OtherLetters == {"eacute"}

Lowers == {"a", "b", "c", "d", "e", "f", "g", "h", "i", "j", "k", "l", "m",
           "n", "o", "p", "q", "r", "s", "t", "u", "v", "w", "x", "y", "z"}

Uppers == {"A", "B", "C", "D", "E", "F", "G", "H", "I", "J", "K", "L", "M",
           "N", "O", "P", "Q", "R", "S", "T", "U", "V", "W", "X", "Y", "Z"}

\* \s of the re module, and what str.strip() and str.split() take as blank
Spaces == {" ", "\t", "\n", "\r", "\f", "vtab", "x1c", "x1d", "x1e", "x1f",
           "x85", "nbsp", "u1680", "u2000", "u2001", "u2002", "u2003",
           "u2004", "u2005", "u2006", "u2007", "u2008", "u2009", "u200a",
           "u2028", "u2029", "u202f", "u205f", "u3000"}

\* \w of the re module
WordChars ==
    Digits \cup SuperDigits \cup Lowers \cup Uppers \cup FoldedLetters
        \cup OtherLetters \cup {"_"}

\* the characters line 19 and line 30 of extract.py turn into "-"
UniDashes == {"ndash", "mdash"}

IsDigit(c) == c \in Digits
IsSpace(c) == c \in Spaces
IsWord(c)  == c \in WordChars

\* s[i:j] of Python with 1-based, inclusive positions: characters a..b
Sub(s, a, b) == IF a > b THEN <<>> ELSE SubSeq(s, a, b)

From(s, a) == Sub(s, a, Len(s))

\* s.startswith(p, a-1): the pattern p is at position a of s
At(s, a, p) == a + Len(p) - 1 <= Len(s) /\ Sub(s, a, a + Len(p) - 1) = p

\* the first position >= a whose character is not in set cs (Len(s)+1 if none)
RECURSIVE SkipSet(_, _, _)
SkipSet(s, a, cs) ==
    IF a <= Len(s) /\ s[a] \in cs THEN SkipSet(s, a + 1, cs) ELSE a

\* the first position >= a whose character is in set cs (Len(s)+1 if none)
RECURSIVE FindSet(_, _, _)
FindSet(s, a, cs) ==
    IF a <= Len(s) /\ s[a] \notin cs THEN FindSet(s, a + 1, cs) ELSE a

\* the character at position a is in set cs
Has(s, a, cs) == a >= 1 /\ a <= Len(s) /\ s[a] \in cs

\* the position after an optional "." at position a
SkipDot(s, a) == IF Has(s, a, {"."}) THEN a + 1 ELSE a

\* the last position <= b whose character is not blank (0 if none)
RECURSIVE LastNonSpace(_, _)
LastNonSpace(s, b) ==
    IF b >= 1 /\ IsSpace(s[b]) THEN LastNonSpace(s, b - 1) ELSE b

\* str.strip()
Strip(s) == Sub(s, SkipSet(s, 1, Spaces), LastNonSpace(s, Len(s)))

\* str.replace(old, new): leftmost, non-overlapping occurrences
RECURSIVE Replace(_, _, _)
Replace(s, old, new) ==
    IF Len(s) < Len(old) \/ Len(old) = 0 THEN s
    ELSE IF At(s, 1, old) THEN new \o Replace(From(s, Len(old) + 1), old, new)
    ELSE <<Head(s)>> \o Replace(Tail(s), old, new)

\* " ".join(s.split()): the blank-separated words joined by single spaces
RECURSIVE JoinSplit(_)
JoinSplit(s) ==
    LET a == SkipSet(s, 1, Spaces)
        b == FindSet(s, a, Spaces)
        rest == JoinSplit(From(s, b))
    IN  IF a > Len(s) THEN <<>>
        ELSE IF rest = <<>> THEN Sub(s, a, b - 1)
        ELSE Sub(s, a, b - 1) \o <<" ">> \o rest

\* the value of a digit character
DigitVal(c) ==
    CASE c \in {"0", "arabic0"} -> 0 [] c \in {"1", "arabic1"} -> 1
      [] c \in {"2", "arabic2"} -> 2 [] c \in {"3", "arabic3"} -> 3
      [] c \in {"4", "arabic4"} -> 4 [] c \in {"5", "arabic5"} -> 5
      [] c \in {"6", "arabic6"} -> 6 [] c \in {"7", "arabic7"} -> 7
      [] c \in {"8", "arabic8"} -> 8 [] c \in {"9", "arabic9"} -> 9

\* int(s) for a string of decimal digits
RECURSIVE ToInt(_)
ToInt(s) ==
    IF s = <<>> THEN 0
    ELSE ToInt(Sub(s, 1, Len(s) - 1)) * 10 + DigitVal(s[Len(s)])

\* str.isdigit()
AllDigits(s) ==
    s # <<>> /\ \A k \in 1..Len(s) : s[k] \in Digits \cup SuperDigits

\* the outcome of a call that raises ValueError
ValueError == <<"ValueError", "invalid literal for int() with base 10">>
Raised(v) == Len(v) = 2

\* int(s) for a string str.isdigit() accepts: <<n>>, or ValueError when a
\* character is no decimal digit
IntOf(s) ==
    IF \A k \in 1..Len(s) : IsDigit(s[k]) THEN <<ToInt(s)>> ELSE ValueError

\* the dash replacements of extract.py lines 19 and 30, caseCollector.py 273
RECURSIVE DashesToHyphen(_)
DashesToHyphen(s) ==
    IF s = <<>> THEN <<>>
    ELSE <<IF Head(s) \in UniDashes THEN "-" ELSE Head(s)>>
         \o DashesToHyphen(Tail(s))

-----------------------------------------------------------------------------
(* extract.py: the record normalizer                                       *)

\* norm_us(s), lines 10-22
norm_us(s) ==
    LET s1 == Strip(s)
        s2 == Replace(Replace(s1, <<"U", ".", " ", "S", ".">>,
                                  <<"U", ".", "S", ".">>),
                      <<"U", ".", " ", "S">>, <<"U", ".", "S">>)
        s3 == Replace(s2, <<"U", ".", " ", "S">>, <<"U", ".", "S">>)
        s4 == DashesToHyphen(s3)
    IN  JoinSplit(s4)

\* norm_docket(s), lines 25-33
norm_docket(s) ==
    LET s1 == Strip(s)
        s2 == DashesToHyphen(s1)
    IN  Replace(Replace(s2, <<"N", "o", ".", " ">>, <<>>),
                <<"N", "o", ".">>, <<>>)

\* PLACEHOLDER_US_RE.match(s), lines 41-49 (re.VERBOSE | re.IGNORECASE):
\*   ^\s* \d+ \s* U\.?S\.? (?:\s*[_\-ndash mdash]*)? \s* $
\* Every repetition is followed by a disjoint class, so the greedy scan below
\* is the only way the pattern can match.
PlaceholderMatch(s) ==
    LET a == SkipSet(s, 1, Spaces)
        b == SkipSet(s, a, Digits)
        c == SkipSet(s, b, Spaces)
        e == SkipDot(s, c + 1)
        g == SkipDot(s, e + 1)
        h == SkipSet(s, SkipSet(s, SkipSet(s, g, Spaces),
                                {"_", "-"} \cup UniDashes), Spaces)
    IN  /\ b > a
        /\ Has(s, c, {"U", "u"})
        /\ Has(s, e, {"S", "s", "longs"})
        /\ h = Len(s) + 1

\* is_placeholder_us(us_norm), lines 52-62
is_placeholder_us(us_norm) ==
    IF us_norm = <<>> THEN TRUE ELSE PlaceholderMatch(us_norm)


\* the smallest element of a non-empty set of integers
MinOf(S) == CHOOSE x \in S : \A y \in S : x <= y

\* get_wiki_year(row), lines 65-84: <<>> for None
\*   title:  re.search(r"\((\d{4})\)\s*$")   usCite: (1[89]\d{2}|20\d{2})
TitleYearAt(t, a) ==
    /\ a + 5 <= Len(t)
    /\ t[a] = "("
    /\ \A k \in (a + 1)..(a + 4) : IsDigit(t[k])
    /\ t[a + 5] = ")"
    /\ SkipSet(t, a + 6, Spaces) = Len(t) + 1

CiteYearAt(u, a) ==
    /\ a + 3 <= Len(u)
    /\ \/ u[a] = "1" /\ u[a + 1] \in {"8", "9"}
       \/ u[a] = "2" /\ u[a + 1] = "0"
    /\ IsDigit(u[a + 2])
    /\ IsDigit(u[a + 3])

get_wiki_year(w_row) ==
    LET title  == w_row.title
        us_raw == w_row.usCite
        m  == {a \in 1..Len(title) : TitleYearAt(title, a)}
        m2 == {a \in 1..Len(us_raw) : CiteYearAt(us_raw, a)}
    IN  IF m # {} THEN <<ToInt(Sub(title, MinOf(m) + 1, MinOf(m) + 4))>>
        ELSE IF m2 # {} THEN <<ToInt(Sub(us_raw, MinOf(m2), MinOf(m2) + 3))>>
        ELSE <<>>

\* parts[-1] of s.split("/"): what follows the last "/"
RECURSIVE LastSegment(_)
LastSegment(s) ==
    LET a == FindSet(s, 1, {"/"})
    IN  IF a > Len(s) THEN s ELSE LastSegment(From(s, a + 1))

\* compute_decision_year(date_decision, term), lines 87-103: <<>> for None,
\* <<year>>, or ValueError when int() of lines 97 and 101 raises
compute_decision_year(date_decision, term) ==
    LET dd == Strip(date_decision)
        y  == LastSegment(dd)
        t  == Strip(term)
    IN  IF dd # <<>> /\ Len(y) = 4 /\ AllDigits(y) THEN IntOf(y)
        ELSE IF AllDigits(t) THEN IntOf(t)
        ELSE <<>>

-----------------------------------------------------------------------------
(* extract.py main(): the matching engine                                  *)

\* dict.update: d with the items of e set
Update(d, e) ==
    [k \in DOMAIN d \cup DOMAIN e |-> IF k \in DOMAIN e THEN e[k] ELSE d[k]]

\* the positions 1..n in order, those passing Test kept
Positions(n, Test(_)) == SelectSeq([k \in 1..n |-> k], Test)

\* the strings pandas.read_csv takes as missing by default; dtype=str does
\* not switch the conversion off ("None" is in the list since pandas 2.0)
NAValues ==
    { <<>>,
      <<"#", "N", "/", "A">>,
      <<"#", "N", "/", "A", " ", "N", "/", "A">>,
      <<"#", "N", "A">>,
      <<"-", "1", ".", "#", "I", "N", "D">>,
      <<"-", "1", ".", "#", "Q", "N", "A", "N">>,
      <<"-", "N", "a", "N">>,
      <<"-", "n", "a", "n">>,
      <<"1", ".", "#", "I", "N", "D">>,
      <<"1", ".", "#", "Q", "N", "A", "N">>,
      <<"<", "N", "A", ">">>,
      <<"N", "/", "A">>,
      <<"N", "A">>,
      <<"N", "U", "L", "L">>,
      <<"N", "a", "N">>,
      <<"N", "o", "n", "e">>,
      <<"n", "/", "a">>,
      <<"n", "a", "n">>,
      <<"n", "u", "l", "l">> }

\* lines 108-109: a cell after read_csv(dtype=str).fillna("")
ReadCell(cell) == IF cell \in NAValues THEN <<>> ELSE cell

\* lines 108-109: a row, and a frame, after read_csv(dtype=str).fillna("")
ReadRow(r) == [c \in DOMAIN r |-> ReadCell(r[c])]
ReadCsv(file) == [k \in 1..Len(file) |-> ReadRow(file[k])]

\* lines 112-113: the two derived columns of a wiki row
WikiNormalized(w) ==
    Update(w, [usCite_norm |-> norm_us(w.usCite),
               docket_norm |-> norm_docket(w.docket)])

\* lines 115-116: the two key columns of an SCDB row
ScdbKeyed(r) ==
    Update(r, [usCite_norm |-> norm_us(r.usCite),
               docket_norm |-> norm_docket(r.docket)])

\* lines 115-124: the three derived columns of an SCDB row
ScdbNormalized(r) ==
    Update(ScdbKeyed(r),
           [decisionYear |-> compute_decision_year(r.dateDecision, r.term)])

\* lines 127-135: groupby(column), the empty key skipped; a group keeps the
\* rows in frame order
GroupBy(frame, column) ==
    [k \in {frame[p][column] : p \in 1..Len(frame)} \ {<<>>} |->
        Positions(Len(frame), LAMBDA p : frame[p][column] = k)]

\* lines 108-135: read both files, derive the columns, build the indexes.
\* When compute_decision_year raises for a row, main() ends at line 119
\* with the key columns set and nothing emitted.
Prepare ==
    /\ mpc = "load"
    /\ LET wiki0 == ReadCsv(wiki)
           scdb0 == ReadCsv(scdb)
           wiki1 == [k \in 1..Len(wiki0) |-> WikiNormalized(wiki0[k])]
           scdb1 == [k \in 1..Len(scdb0) |-> ScdbNormalized(scdb0[k])]
           raises == \E k \in 1..Len(scdb1) : Raised(scdb1[k].decisionYear)
       IN  /\ wiki' = wiki1
           /\ IF raises
              THEN /\ scdb' = [k \in 1..Len(scdb0) |-> ScdbKeyed(scdb0[k])]
                   /\ mpc' = "error"
                   /\ UNCHANGED <<scdb_by_us, scdb_by_docket>>
              ELSE /\ scdb' = scdb1
                   /\ scdb_by_us' = GroupBy(scdb1, "usCite_norm")
                   /\ scdb_by_docket' = GroupBy(scdb1, "docket_norm")
                   /\ mpc' = "loop"
    /\ UNCHANGED <<matched_rows, unmatched_rows, row, chosen>>
    /\ UNCHANGED <<callVars, collectVars>>

\* lines 145-149
UsEffective(w_row) ==
    IF is_placeholder_us(w_row.usCite_norm) THEN <<>> ELSE w_row.usCite_norm

\* lines 153-161: <<>> or <<position>>
ChooseByCite(w_row, by_us) ==
    LET w_us_effective == UsEffective(w_row)
    IN  IF w_us_effective # <<>> /\ w_us_effective \in DOMAIN by_us
        THEN <<by_us[w_us_effective][1]>>
        ELSE <<>>

\* Disambiguate without the year filter: always the first row of the bucket
DisambiguateFirstOnly(w_row, cand, frame) == <<cand[1]>>

\* lines 173-186: a docket shared by several SCDB rows
Disambiguate(w_row, cand, frame) ==
    LET wiki_year == get_wiki_year(w_row)
        cand_year == SelectSeq(cand,
                        LAMBDA p : frame[p].decisionYear = wiki_year)
    IN  IF wiki_year # <<>>
        THEN IF Len(cand_year) = 1 THEN <<cand_year[1]>>
             ELSE IF Len(cand_year) > 1 THEN <<cand_year[1]>>
             ELSE <<cand[1]>>
        ELSE <<cand[1]>>

\* ChooseByDocket with the membership test of line 165 lost: a docket
\* that is in no bucket takes its candidates from the whole frame
ChooseByDocketAnyBucket(w_row, by_docket, frame) ==
    IF w_row.docket_norm # <<>>
    THEN LET cand == IF w_row.docket_norm \in DOMAIN by_docket
                     THEN by_docket[w_row.docket_norm]
                     ELSE [p \in 1..Len(frame) |-> p]
         IN  IF Len(cand) = 1 THEN <<cand[1]>>
             ELSE Disambiguate(w_row, cand, frame)
    ELSE <<>>

\* lines 164-186: <<>> or <<position>>
ChooseByDocket(w_row, by_docket, frame) ==
    IF w_row.docket_norm # <<>> /\ w_row.docket_norm \in DOMAIN by_docket
    THEN LET cand == by_docket[w_row.docket_norm]
         IN  IF Len(cand) = 1 THEN <<cand[1]>>
             ELSE Disambiguate(w_row, cand, frame)
    ELSE <<>>

\* Choose with the two steps swapped: docket before citation
ChooseDocketFirst(w_row, by_us, by_docket, frame) ==
    LET c2 == ChooseByDocket(w_row, by_docket, frame)
    IN  IF c2 # <<>> THEN c2 ELSE ChooseByCite(w_row, by_us)

\* lines 151-186: the row's selection
Choose(w_row, by_us, by_docket, frame) ==
    LET c1 == ChooseByCite(w_row, by_us)
    IN  IF c1 # <<>> THEN c1 ELSE ChooseByDocket(w_row, by_docket, frame)

\* lines 192-204: chosen.to_dict() updated with the wiki metadata and views
Merged(s_row, w_row) ==
    Update(s_row, [wiki_title     |-> w_row.title,
                   wiki_usCite    |-> w_row.usCite,
                   wiki_docket    |-> w_row.docket,
                   views_all_time |-> w_row.views_all_time,
                   views_1yr      |-> w_row.views_1yr,
                   views_6mo      |-> w_row.views_6mo,
                   views_1mo      |-> w_row.views_1mo])

\* line 190: what is appended to unmatched_rows
UnmatchedEntry(w_row) == w_row

\* Record with the else of line 191 lost: a matched row is also appended to
\* unmatched_rows
RecordMissingElse(c, w_row, frame, m_rows, u_rows) ==
    IF c = <<>>
    THEN <<m_rows, Append(u_rows, UnmatchedEntry(w_row))>>
    ELSE <<Append(m_rows, Merged(frame[c[1]], w_row)),
           Append(u_rows, UnmatchedEntry(w_row))>>

\* lines 189-205: the new (matched_rows, unmatched_rows)
Record(c, w_row, frame, m_rows, u_rows) ==
    IF c = <<>>
    THEN <<m_rows, Append(u_rows, UnmatchedEntry(w_row))>>
    ELSE <<Append(m_rows, Merged(frame[c[1]], w_row)), u_rows>>

\* lines 140-205: one iteration of the loop over wiki.iterrows()
MatchRow ==
    /\ mpc = "loop"
    /\ row < Len(wiki)
    /\ LET w_row == wiki[row + 1]
           c     == Choose(w_row, scdb_by_us, scdb_by_docket, scdb)
           out   == Record(c, w_row, scdb, matched_rows, unmatched_rows)
       IN  /\ chosen' = c
           /\ matched_rows' = out[1]
           /\ unmatched_rows' = out[2]
    /\ row' = row + 1
    /\ UNCHANGED <<wiki, scdb, scdb_by_us, scdb_by_docket, mpc>>
    /\ UNCHANGED <<callVars, collectVars>>

\* lines 207-225: the loop is over; the frames are written and summed
Finish ==
    /\ mpc = "loop"
    /\ row = Len(wiki)
    /\ mpc' = "done"
    /\ UNCHANGED <<wiki, scdb, scdb_by_us, scdb_by_docket, matched_rows,
                   unmatched_rows, row, chosen>>
    /\ UNCHANGED <<callVars, collectVars>>

-----------------------------------------------------------------------------
(* Inputs of the matching engine                                           *)

\* the longest wiki frame and the longest SCDB frame explored
MaxWiki == 2
MaxScdb == 2

Empty == <<>>

Cite57       == <<"5", " ", "U", ".", "S", ".", " ", "7">>
Cite57Spaced == <<"5", " ", "U", ".", " ", "S", ".", " ", "7">>
Cite58       == <<"5", " ", "U", ".", "S", ".", " ", "8">>
CiteVolOnly  == <<"5", "9", "2", " ", "U", ".", "S", ".", " ", "_", "_", "_">>
CiteDated    == <<"5", " ", "U", ".", "S", ".", " ", "9", " ",
                  "(", "2", "0", "1", "5", ")">>
Docket14     == <<"1", "4", "-", "1", "0", "0", "7", "8">>
Docket14No   == <<"N", "o", ".", " ", "1", "4", "-", "1", "0", "0", "7", "8">>
TitleBaker   == <<"B", "a", "k", "e", "r", " ", "v", ".", " ",
                  "C", "a", "r", "r">>
TitleFoo2016 == <<"F", "o", "o", " ", "v", ".", " ", "B", "a", "r", " ",
                  "(", "2", "0", "1", "6", ")">>
TitleRoe1999 == <<"R", "o", "e", " ", "(", "1", "9", "9", "9", ")">>
TitleDoe     == <<"D", "o", "e">>

\* a row of wiki_infobox_cases.csv (caseCollector.py lines 391-399), every
\* cell a str
WikiRow(title, usCite, docket) ==
    [title |-> title, usCite |-> usCite, docket |-> docket,
     views_all_time |-> <<"9", "0">>, views_1yr |-> <<"1", "2">>,
     views_6mo |-> <<"6">>, views_1mo |-> <<"1">>]

\* a row of SCDB_merged.csv, every cell a str
ScdbRow(caseId, usCite, docket, dateDecision, term) ==
    [caseId |-> caseId, usCite |-> usCite, docket |-> docket,
     dateDecision |-> dateDecision, term |-> term]

WikiPool ==
    { WikiRow(TitleBaker, Cite57, Empty),
      WikiRow(TitleFoo2016, Empty, Docket14),
      WikiRow(TitleDoe, CiteVolOnly, <<"N", "A">>),
      WikiRow(TitleDoe, CiteDated, Docket14No),
      WikiRow(TitleBaker, Cite57Spaced, Docket14),
      WikiRow(TitleRoe1999, CiteVolOnly, Docket14) }

ScdbPool ==
    { ScdbRow(<<"A">>, Cite57, Docket14,
              <<"6", "/", "1", "/", "2", "0", "1", "5">>,
              <<"2", "0", "1", "4">>),
      ScdbRow(<<"B">>, Cite58, Docket14, Empty, <<"2", "0", "1", "6">>),
      ScdbRow(<<"C">>, CiteVolOnly, <<"N", "A">>,
              <<"1", "/", "2", "/", "2", "0", "1", "6">>, Empty),
      ScdbRow(<<"D">>, Cite57Spaced, Docket14No, <<"n", "/", "a">>, Empty) }

\* the sequences over S of a length in lo..hi
SeqsOf(S, lo, hi) == UNION {[1..n -> S] : n \in lo..hi}

\* main() is not running
MatchOff ==
    /\ wiki = <<>> /\ scdb = <<>>
    /\ scdb_by_us = <<>> /\ scdb_by_docket = <<>>
    /\ matched_rows = <<>> /\ unmatched_rows = <<>>
    /\ row = 0 /\ chosen = <<>> /\ mpc = "off"

\* no pure function is being called
CallOff == fn = "off" /\ arg = <<>> /\ res = <<>>

\* the collector is not running
CollectOff ==
    /\ pages = <<>> /\ batch_state = <<>> /\ batch_rows = <<>>
    /\ all_rows = <<>> /\ pv_state = <<>> /\ pv_result = <<>>
    /\ final_rows = <<>> /\ cpc = "off"

\* extract.py main() at line 108, the cells of the two CSV files
MatchStart(wikiFrames, scdbFrames) ==
    /\ wiki \in wikiFrames
    /\ scdb \in scdbFrames
    /\ scdb_by_us = <<>> /\ scdb_by_docket = <<>>
    /\ matched_rows = <<>> /\ unmatched_rows = <<>>
    /\ row = 0 /\ chosen = <<>> /\ mpc = "load"

\* an SCDB row whose term str.isdigit() accepts and int() rejects
ScdbBadTerm == ScdbRow(<<"E">>, Cite58, Docket14, Empty, <<"sup2">>)

\* the SCDB files: the frames over the pool, and one- and two-row files
\* that hold the row of the bad term
ScdbFiles ==
    SeqsOf(ScdbPool, 1, MaxScdb)
        \cup {<<ScdbBadTerm>>} \cup {<<r, ScdbBadTerm>> : r \in ScdbPool}

InitMatch ==
    /\ MatchStart(SeqsOf(WikiPool, 0, MaxWiki), ScdbFiles)
    /\ CallOff
    /\ CollectOff

NextMatch == Prepare \/ MatchRow \/ Finish

\* the matching engine on frames drawn from the pools
SpecMatch == InitMatch /\ [][NextMatch]_vars

-----------------------------------------------------------------------------
(* Properties of the matching engine                                       *)

\* the loop has processed at least one row; LastRow is that row
Processed == mpc \in {"loop", "done"} /\ row >= 1
LastRow == wiki[row]

\* the source fields of an emitted record, whichever list it is in
SourceOfMatched(m) == <<m.wiki_title, m.wiki_usCite, m.wiki_docket>>
SourceOfRow(w) == <<w.title, w.usCite, w.docket>>

\* how many positions of sequence q pass Test
CountIn(q, Test(_)) == Cardinality({k \in 1..Len(q) : Test(q[k])})

\* C1: count conservation.  After every prefix of the loop, and so at its
\* end, the processed source records and the emitted records correspond one
\* to one: len(matched) + len(unmatched) is the number of records processed
\* (all of them once the loop is over), and each source record occurs among
\* the outcomes exactly as often as among the processed rows.
CountConservation ==
    mpc \in {"loop", "done"} =>
        /\ Len(matched_rows) + Len(unmatched_rows) = row
        /\ mpc = "done" => row = Len(wiki)
        /\ \A w \in {ReadRow(v) : v \in WikiPool} :
              CountIn(SubSeq(wiki, 1, row),
                      LAMBDA x : SourceOfRow(x) = SourceOfRow(w))
              = CountIn(matched_rows,
                        LAMBDA m : SourceOfMatched(m) = SourceOfRow(w))
                + CountIn(unmatched_rows,
                          LAMBDA u : SourceOfRow(u) = SourceOfRow(w))

\* C1 witness: a finished run of two records, one matched and one unmatched
CountConservationWitness ==
    /\ mpc = "done"
    /\ row = 2
    /\ Len(matched_rows) = 1
    /\ Len(unmatched_rows) = 1

\* the positions of the external rows whose normalized citation is key
RowsWithCite(key) ==
    {p \in 1..Len(scdb) : norm_us(scdb[p].usCite) = key}

\* the positions of the external rows whose normalized docket is key
RowsWithDocket(key) ==
    {p \in 1..Len(scdb) : norm_docket(scdb[p].docket) = key}

\* the record the engine emitted last is the merge of external row p
LastMatchedIs(p) ==
    /\ chosen = <<p>>
    /\ matched_rows # <<>>
    /\ LET m == matched_rows[Len(matched_rows)]
       IN  /\ \A k \in DOMAIN scdb[p] : m[k] = scdb[p][k]
           /\ SourceOfMatched(m) = SourceOfRow(LastRow)

\* the source row has a usable citation that some external row shares
CiteHit(w) ==
    LET key == norm_us(w.usCite)
    IN  key # <<>> /\ ~PlaceholderMatch(key) /\ RowsWithCite(key) # {}

\* C3: citation-first priority.  A source record whose normalized citation
\* is not a placeholder and is carried by some external row is Matched with
\* the first such row in external input order, whatever its docket is and
\* whatever rows that docket would select.
CitationFirst ==
    (Processed /\ CiteHit(LastRow)) =>
        LastMatchedIs(MinOf(RowsWithCite(norm_us(LastRow.usCite))))

\* C3 witness: a record matched by citation to one row while its docket is
\* in the docket index and would have selected another row
CitationFirstWitness ==
    /\ Processed
    /\ CiteHit(LastRow)
    /\ chosen # <<>>
    /\ ChooseByDocket(LastRow, scdb_by_docket, scdb) \notin {<<>>, chosen}

\* the year of an external row as the engine derives it (<<>> if none)
YearOfRow(p) == compute_decision_year(scdb[p].dateDecision, scdb[p].term)

\* the docket rule of section 4.5 step 3 for source row w: sole candidate,
\* else first candidate of the disambiguation year, else first candidate
DocketExpected(w) ==
    LET bucket == RowsWithDocket(norm_docket(w.docket))
        year   == get_wiki_year(w)
        ofYear == {p \in bucket : year # <<>> /\ YearOfRow(p) = year}
    IN  IF Cardinality(bucket) = 1 THEN MinOf(bucket)
        ELSE IF ofYear # {} THEN MinOf(ofYear)
        ELSE MinOf(bucket)

\* the source row is not matched by citation and its docket is indexed
DocketCase(w) ==
    /\ ~CiteHit(w)
    /\ norm_docket(w.docket) # <<>>
    /\ RowsWithDocket(norm_docket(w.docket)) # {}

\* C5: docket fallback with year disambiguation.  A source record not
\* matched by citation whose normalized docket is indexed always selects
\* exactly one external row: the sole candidate, else the first candidate
\* decided in the disambiguation year, else the first candidate.  With the
\* two rows of docket 14-10078 decided in 2015 (A) and 2016 (B), in either
\* order, the source titled "Foo v. Bar (2016)" selects B.
DocketFallback ==
    (Processed /\ DocketCase(LastRow)) =>
        /\ LastMatchedIs(DocketExpected(LastRow))
        /\ ( /\ LastRow.title = TitleFoo2016
             /\ LastRow.usCite = Empty
             /\ Len(scdb) = 2
             /\ {scdb[1].caseId, scdb[2].caseId} = {<<"A">>, <<"B">>} )
           => scdb[chosen[1]].caseId = <<"B">>

\* C5 witness: the 2016 row is selected although the 2015 row comes first
DocketFallbackWitness ==
    /\ Processed
    /\ DocketCase(LastRow)
    /\ LastRow.title = TitleFoo2016
    /\ Len(scdb) = 2
    /\ scdb[1].caseId = <<"A">>
    /\ chosen = <<2>>

\* the columns of the two input files
WikiColumns == {"title", "usCite", "docket", "views_all_time", "views_1yr",
                "views_6mo", "views_1mo"}
ScdbColumns == {"caseId", "usCite", "docket", "dateDecision", "term"}
AppendedColumns == {"wiki_title", "wiki_usCite", "wiki_docket",
                    "views_all_time", "views_1yr", "views_6mo", "views_1mo"}

\* C9: normalized keys are never persisted onto emitted records.  Every
\* Unmatched record has exactly the source record's original fields and the
\* four pageview counts; every Matched record has exactly the external
\* row's original fields, the appended source fields and the four counts.
NoDerivedFieldEmitted ==
    /\ \A k \in 1..Len(unmatched_rows) :
          DOMAIN unmatched_rows[k] = WikiColumns
    /\ \A k \in 1..Len(matched_rows) :
          DOMAIN matched_rows[k] = ScdbColumns \cup AppendedColumns

\* the keys of the two indexes, from the external rows' normalized columns
CiteIndexKeys ==
    {scdb[p].usCite_norm : p \in 1..Len(scdb)} \ {<<>>}
DocketIndexKeys ==
    {scdb[p].docket_norm : p \in 1..Len(scdb)} \ {<<>>}

\* the effective citation key of a normalized citation: empty for a blank
\* or placeholder citation
EffectiveKey(us) == IF us = <<>> \/ PlaceholderMatch(us) THEN <<>> ELSE us

\* no index holds a key of the source row w: cites and dockets are the key
\* sets of the two indexes
NoIndexedKey(w, cites, dockets) ==
    /\ EffectiveKey(w.usCite_norm) \notin cites
    /\ w.docket_norm \notin dockets

\* the processed source rows the Matched record m was made from
SourcesOf(m) ==
    {i \in 1..row : SourceOfRow(wiki[i]) = SourceOfMatched(m)}

\* the external rows the Matched record m was made from
ExternalOf(m) ==
    {p \in 1..Len(scdb) : \A c \in ScdbColumns : m[c] = scdb[p][c]}

\* source row w and external row s share a usable citation
MatchedByCitation(w, s) ==
    /\ w.usCite_norm # <<>>
    /\ ~PlaceholderMatch(w.usCite_norm)
    /\ w.usCite_norm = s.usCite_norm

\* source row w and external row s share a docket, w having no citation
\* key in the citation index
MatchedByDocket(w, s, cites) ==
    /\ w.docket_norm # <<>>
    /\ w.docket_norm = s.docket_norm
    /\ EffectiveKey(w.usCite_norm) \notin cites

\* the processed source row w was emitted as Unmatched
EmittedUnmatched(w) ==
    \E k \in 1..Len(unmatched_rows) :
        SourceOfRow(unmatched_rows[k]) = SourceOfRow(w)

\* C11: match soundness.  Every Matched record pairs a source record with
\* an external row such that either the source's normalized citation is
\* non-empty, not a placeholder and equal to the row's normalized citation,
\* or the source's normalized docket is non-empty and equal to the row's
\* normalized docket while the source's effective citation key is empty or
\* not in the citation index.  A processed source record is Unmatched
\* exactly when its effective citation key is empty or not in the citation
\* index and its normalized docket is empty or not in the docket index.
MatchSoundness ==
    mpc \in {"loop", "done"} =>
        LET cites   == CiteIndexKeys
            dockets == DocketIndexKeys
        IN  /\ \A k \in 1..Len(matched_rows) :
                  /\ SourcesOf(matched_rows[k]) # {}
                  /\ ExternalOf(matched_rows[k]) # {}
                  /\ \A i \in SourcesOf(matched_rows[k]) :
                        \A p \in ExternalOf(matched_rows[k]) :
                            \/ MatchedByCitation(wiki[i], scdb[p])
                            \/ MatchedByDocket(wiki[i], scdb[p], cites)
            /\ \A i \in 1..row :
                  EmittedUnmatched(wiki[i])
                      <=> NoIndexedKey(wiki[i], cites, dockets)

\* C11 witness: a finished run in which one record with a usable citation
\* that no external row carries is Matched by its docket, and another
\* record with a usable citation is Unmatched
MatchSoundnessWitness ==
    /\ mpc = "done"
    /\ \E k \in 1..Len(matched_rows) :
          \E i \in SourcesOf(matched_rows[k]) :
              \E p \in ExternalOf(matched_rows[k]) :
                  /\ MatchedByDocket(wiki[i], scdb[p], CiteIndexKeys)
                  /\ ~MatchedByCitation(wiki[i], scdb[p])
                  /\ EffectiveKey(wiki[i].usCite_norm) # <<>>
    /\ \E k \in 1..Len(unmatched_rows) :
          EffectiveKey(unmatched_rows[k].usCite_norm) # <<>>

-----------------------------------------------------------------------------
(* The record normalizer called on its own                                 *)

\* the longest string the normalizers are called on
MaxNormLen == 6

\* characters that make up citations and dockets, blanks of two kinds
CiteAlphabet   == {"U", ".", "S", " ", "\t"}
DocketAlphabet == {"N", "o", ".", " ", "\t"}

NormInputs ==
    SeqsOf(CiteAlphabet, 0, MaxNormLen) \cup SeqsOf(DocketAlphabet, 0, MaxNormLen)

\* the value the next application takes: the argument, then the last result
Operand == IF res = <<>> THEN arg ELSE res[Len(res)]

\* a caller applies norm_us, and again to what it returned
CallNormUs ==
    /\ fn \in {"idle", "norm_us"}
    /\ Len(res) < 2
    /\ fn' = "norm_us"
    /\ res' = Append(res, norm_us(Operand))
    /\ UNCHANGED <<arg, matchVars, collectVars>>

\* a caller applies norm_docket, and again to what it returned
CallNormDocket ==
    /\ fn \in {"idle", "norm_docket"}
    /\ Len(res) < 2
    /\ fn' = "norm_docket"
    /\ res' = Append(res, norm_docket(Operand))
    /\ UNCHANGED <<arg, matchVars, collectVars>>

InitNorm ==
    /\ fn = "idle"
    /\ arg \in NormInputs
    /\ res = <<>>
    /\ MatchOff
    /\ CollectOff

NextNorm == CallNormUs \/ CallNormDocket

\* the normalizers on every string over the two alphabets
SpecNorm == InitNorm /\ [][NextNorm]_vars

\* C6: normalization idempotence.  Normalizing an already normalized
\* citation or docket changes nothing: norm_us(norm_us(s)) = norm_us(s) and
\* norm_docket(norm_docket(s)) = norm_docket(s) for every string s.
NormalizationIdempotent ==
    (fn \in {"norm_us", "norm_docket"} /\ Len(res) = 2) => res[2] = res[1]

\* C6, the citation half alone
NormUsIdempotent == (fn = "norm_us" /\ Len(res) = 2) => res[2] = res[1]

\* C6, the docket half alone
NormDocketIdempotent == (fn = "norm_docket" /\ Len(res) = 2) => res[2] = res[1]

-----------------------------------------------------------------------------
(* The matching engine on volume-only and paged citations                  *)

\* the longest tail that follows "U.S." in the citations explored
MaxTail == 4

Cite592    == <<"5", "9", "2", " ", "U", ".", "S", ".">>
Cite592Sp  == <<"5", "9", "2", " ", "U", ".", " ", "S", ".">>
CiteBare   == <<"5", "U", "S">>
CiteLower  == <<"5", " ", "u", ".", "s">>
\* an Arabic-Indic volume, a long s and a no-break space
CiteFolded == <<"arabic5", "nbsp", "U", ".", "longs", ".">>
Docket9    == <<"9", "-", "9">>

CiteHeads == {Cite592, Cite592Sp, CiteBare, CiteLower, CiteFolded}
TailAlphabet == {"_", "-", "ndash", " ", "7"}

\* "", and every head followed by every tail
CiteInputs ==
    {Empty} \cup {h \o t : h \in CiteHeads, t \in SeqsOf(TailAlphabet, 0, MaxTail)}

\* one source record with the citation, and one external row carrying the
\* identical citation under docket 14-10078
InitCite ==
    /\ \E c \in CiteInputs :
          MatchStart({<<WikiRow(TitleDoe, c, d)>> : d \in {Empty, Docket14, Docket9}},
                     {<<ScdbRow(<<"A">>, c, Docket14, Empty, Empty)>>})
    /\ CallOff
    /\ CollectOff

\* the matching engine on one source record and one external row that
\* carry the same citation
SpecCite == InitCite /\ [][NextMatch]_vars

\* the ways the regex of lines 41-49 spells the reporter
UsForms ==
    UNION {{<<u, ".", v, ".">>, <<u, ".", v>>, <<u, v, ".">>, <<u, v>>} :
           <<u, v>> \in {"U", "u"} \X {"S", "s", "longs"}}

Marks == {"_", "-", "ndash", "mdash"}

\* the volume-only shape: digits, the reporter, then nothing but
\* underscores, dashes and blanks
VolumeOnlyShape(n) ==
    \E a \in 1..Len(n), b \in 1..Len(n) :
        /\ a < b
        /\ \A k \in 1..a : IsDigit(n[k])
        /\ Strip(Sub(n, a + 1, b)) \in UsForms
        /\ ~IsSpace(n[b])
        /\ \A k \in (b + 1)..Len(n) : n[k] \in Marks \cup Spaces

\* the part of the volume-only shape PLACEHOLDER_US_RE accepts: the
\* underscores and dashes are one run, no blank between two of them
SingleRunShape(n) ==
    \E a \in 1..Len(n), b \in 1..Len(n) :
        /\ a < b
        /\ \A k \in 1..a : IsDigit(n[k])
        /\ Strip(Sub(n, a + 1, b)) \in UsForms
        /\ ~IsSpace(n[b])
        /\ LET tail == Strip(From(n, b + 1))
           IN  \A k \in 1..Len(tail) : tail[k] \in Marks

\* the last record was handled as a record without citation: no row through
\* the citation index, Matched through a docket found in the docket index,
\* Unmatched otherwise
HandledAsBlank ==
    LET d == norm_docket(LastRow.docket)
    IN  /\ ChooseByCite(LastRow, scdb_by_us) = <<>>
        /\ (d # <<>> /\ RowsWithDocket(d) # {}) =>
              /\ chosen # <<>>
              /\ chosen[1] \in RowsWithDocket(d)
              /\ Len(matched_rows) = row
        /\ (d = <<>> \/ RowsWithDocket(d) = {}) =>
              /\ chosen = <<>>
              /\ unmatched_rows # <<>>
              /\ SourceOfRow(unmatched_rows[Len(unmatched_rows)])
                   = SourceOfRow(LastRow)

\* C4: placeholder citations are treated as blank.  A source record whose
\* normalized citation is empty or volume-only ("<digits> U.S." followed
\* only by underscores, dashes and blanks) never selects a row through the
\* citation index, even when an external row carries the identical
\* citation: it is Matched only through a non-empty docket found in the
\* docket index, and Unmatched otherwise.  A normalized citation that ends
\* in a page number is never classified as a placeholder.
PlaceholderBlank ==
    Processed =>
        LET n == norm_us(LastRow.usCite)
        IN  /\ (n = <<>> \/ VolumeOnlyShape(n)) => HandledAsBlank
            /\ (n # <<>> /\ IsDigit(n[Len(n)])) => ~is_placeholder_us(n)

\* what the engine does of C4: a citation that is empty or volume-only with
\* its underscores and dashes in one run is handled as blank, and a citation
\* that ends in a page number is no placeholder
SingleRunBlank ==
    Processed =>
        LET n == norm_us(LastRow.usCite)
        IN  /\ (n = <<>> \/ SingleRunShape(n)) => HandledAsBlank
            /\ (n # <<>> /\ IsDigit(n[Len(n)])) => ~is_placeholder_us(n)

\* the citation "592 U.S. ___" is in the citation index, the source record
\* carries it and no docket, and the record is Unmatched
PlaceholderUnmatched ==
    /\ Processed
    /\ norm_us(LastRow.usCite) = CiteVolOnly
    /\ CiteVolOnly \in DOMAIN scdb_by_us
    /\ LastRow.docket = Empty
    /\ chosen = <<>>
    /\ Len(unmatched_rows) = 1

\* the citation "592 U.S. _ _" is in the citation index, the source record
\* carries it and no docket, and the record is Matched through the citation
InterleavedTailMatched ==
    /\ Processed
    /\ norm_us(LastRow.usCite) = Cite592 \o <<" ", "_", " ", "_">>
    /\ LastRow.docket = Empty
    /\ chosen # <<>>
    /\ Len(matched_rows) = 1

-----------------------------------------------------------------------------
(* caseCollector.py: the template scanner                                  *)

LowerSeq == <<"a", "b", "c", "d", "e", "f", "g", "h", "i", "j", "k", "l", "m",
              "n", "o", "p", "q", "r", "s", "t", "u", "v", "w", "x", "y", "z">>
UpperSeq == <<"A", "B", "C", "D", "E", "F", "G", "H", "I", "J", "K", "L", "M",
              "N", "O", "P", "Q", "R", "S", "T", "U", "V", "W", "X", "Y", "Z">>

\* the lower-case form of a character: how re.I compares letters
ToLower(c) ==
    IF c \in Uppers THEN LowerSeq[CHOOSE k \in 1..26 : UpperSeq[k] = c]
    ELSE IF c = "longs" THEN "s"
    ELSE IF c = "kelvin" THEN "k"
    ELSE IF c \in {"dotI", "dotlessi"} THEN "i"
    ELSE c

\* the word w is at position a of s, letter case ignored
AtCI(s, a, w) ==
    /\ a + Len(w) - 1 <= Len(s)
    /\ \A k \in 1..Len(w) : ToLower(s[a + k - 1]) = ToLower(w[k])

\* the words, separated by \s+, are at position a of s (case ignored)
RECURSIVE WordsAt(_, _, _)
WordsAt(s, a, words) ==
    /\ AtCI(s, a, Head(words))
    /\ \/ Len(words) = 1
       \/ LET b == a + Len(Head(words))
              c == SkipSet(s, b, Spaces)
          IN  c > b /\ WordsAt(s, c, Tail(words))

WInfobox == <<"I", "n", "f", "o", "b", "o", "x">>
WUS      == <<"U", "S">>
WSupreme == <<"S", "u", "p", "r", "e", "m", "e">>
WCourt   == <<"C", "o", "u", "r", "t">>
WCase    == <<"c", "a", "s", "e">>
WSCOTUS  == <<"S", "C", "O", "T", "U", "S">>
WSCOTUSCase == <<"S", "C", "O", "T", "U", "S", "C", "a", "s", "e">>

Open  == <<"{", "{">>
Close == <<"}", "}">>

\* INFOBOX_START matches at position a, lines 79-86
InfoboxStartAt(text, a) ==
    /\ At(text, a, Open)
    /\ LET b == SkipSet(text, a + 2, Spaces)
       IN  \/ WordsAt(text, b, <<WInfobox, WUS, WSupreme, WCourt, WCase>>)
           \/ WordsAt(text, b, <<WInfobox, WSCOTUS, WCase>>)
           \/ WordsAt(text, b, <<WSCOTUSCase>>)

\* the loop of lines 213-225 with its end lost: the rest of the text is
\* returned when the template never closes
\* the first position >= i where a marker starts, Len(text)+1 if none: where
\* the else branch of line 223 leaves i
NextMarker(text, i) ==
    LET m == {k \in i..Len(text) : At(text, k, Open) \/ At(text, k, Close)}
    IN  IF m = {} THEN Len(text) + 1 ELSE MinOf(m)

RECURSIVE ScanPartialAtEnd(_, _, _, _)
ScanPartialAtEnd(text, start, i, depth) ==
    LET k == NextMarker(text, i)
    IN  IF k > Len(text) THEN From(text, start)
        ELSE IF At(text, k, Open)
             THEN ScanPartialAtEnd(text, start, k + 2, depth + 1)
        ELSE IF depth - 1 <= 0 THEN Sub(text, start, k + 1)
        ELSE ScanPartialAtEnd(text, start, k + 2, depth - 1)

\* the loop of lines 213-225, at position i with the depth so far
RECURSIVE Scan(_, _, _, _)
Scan(text, start, i, depth) ==
    LET k == NextMarker(text, i)
    IN  IF k > Len(text) THEN <<>>
        ELSE IF At(text, k, Open) THEN Scan(text, start, k + 2, depth + 1)
        ELSE IF depth - 1 <= 0 THEN Sub(text, start, k + 1)
        ELSE Scan(text, start, k + 2, depth - 1)

\* extract_infobox(text), lines 205-225
extract_infobox(text) ==
    LET m == {a \in 1..Len(text) : InfoboxStartAt(text, a)}
    IN  IF m = {} THEN <<>> ELSE Scan(text, MinOf(m), MinOf(m), 0)

-----------------------------------------------------------------------------
(* The template scanner called on its own                                  *)

\* the longest body that follows the opening marker in the texts explored
MaxBody == 6

OpenShort  == <<"{", "{", "S", "C", "O", "T", "U", "S", "C", "a", "s", "e">>
OpenLower  == <<"{", "{", " ", "i", "n", "f", "o", "b", "o", "x", " ",
                "s", "c", "o", "t", "u", "s", " ", "c", "a", "s", "e">>
OpenLong   == <<"{", "{", "I", "n", "f", "o", "b", "o", "x", " ", "U", "S", " ",
                "S", "u", "p", "r", "e", "m", "e", " ", "C", "o", "u", "r", "t",
                "\n", "c", "a", "s", "e">>

ScanPrefixes == {Empty, <<"}", "}">>, <<"{", "{", "a", "}", "}", "{">>}
ScanOpeners  == {Empty, OpenShort, OpenLower, OpenLong}
BodyAlphabet == {"{", "}", "a"}

\* text before the template, an opening marker or none, and every body
ScanInputs ==
    {p \o o \o b : p \in ScanPrefixes, o \in ScanOpeners,
                   b \in SeqsOf(BodyAlphabet, 0, MaxBody)}

\* a caller applies extract_infobox
CallExtractInfobox ==
    /\ fn = "idle"
    /\ fn' = "extract_infobox"
    /\ res' = <<extract_infobox(arg)>>
    /\ UNCHANGED <<arg, matchVars, collectVars>>

InitScan ==
    /\ fn = "idle"
    /\ arg \in ScanInputs
    /\ res = <<>>
    /\ MatchOff
    /\ CollectOff

NextScan == CallExtractInfobox

\* the template scanner on every text of ScanInputs
SpecScan == InitScan /\ [][NextScan]_vars

\* the nesting depth at the end of s: each two-character open marker met
\* scanning left to right counts +1, each two-character close marker -1
RECURSIVE NestDepth(_)
NestDepth(s) ==
    IF Len(s) < 2 THEN 0
    ELSE IF Sub(s, 1, 2) = Open THEN NestDepth(From(s, 3)) + 1
    ELSE IF Sub(s, 1, 2) = Close THEN NestDepth(From(s, 3)) - 1
    ELSE NestDepth(Tail(s))

\* the positions where an opening marker of a case infobox starts
Openings(text) == {a \in 1..Len(text) : InfoboxStartAt(text, a)}

\* C2: balanced span.  A returned span starts at the first case-infobox
\* opening marker; its depth is 1 right after the opening marker, at least 1
\* strictly inside, and 0 exactly at its end.  When there is no opening
\* marker, or the text ends before the depth returns to 0, the result is
\* empty, never a partial span.
BalancedSpan ==
    fn = "extract_infobox" =>
        LET text == arg
            span == res[1]
        IN  IF Openings(text) = {} THEN span = <<>>
            ELSE LET start == MinOf(Openings(text))
                     closes == {e \in (start + 1)..Len(text) :
                                   NestDepth(Sub(text, start, e)) <= 0}
                 IN  /\ (closes = {}) <=> (span = <<>>)
                     /\ span # <<>> =>
                           /\ span = Sub(text, start, start + Len(span) - 1)
                           /\ NestDepth(Sub(span, 1, 2)) = 1
                           /\ \A k \in 2..(Len(span) - 1) :
                                 NestDepth(Sub(span, 1, k)) >= 1
                           /\ NestDepth(span) = 0
                           /\ Sub(span, Len(span) - 1, Len(span)) = Close

\* C2 witness: a span with a nested template inside it is returned, and it
\* starts after the beginning of the text
BalancedSpanWitness ==
    /\ fn = "extract_infobox"
    /\ res[1] # <<>>
    /\ \E k \in 1..Len(res[1]) : NestDepth(Sub(res[1], 1, k)) = 2
    /\ \E a \in 2..Len(arg) : At(arg, a, res[1])

\* C2 witness of the empty result: an opening marker whose template never
\* closes yields nothing
UnterminatedWitness ==
    /\ fn = "extract_infobox"
    /\ Openings(arg) # {}
    /\ res[1] = <<>>

-----------------------------------------------------------------------------
(* caseCollector.py: the markup cleaner                                    *)

\* where \[https?://[^\]\s]*(?:\s+[^\]]+)?\] ends when it matches at
\* position a (the position of its "]"), 0 when it does not match
ExtLinkEnd(t, a) ==
    LET http == <<"[", "h", "t", "t", "p">>
        b == IF At(t, a, http)
             THEN (IF At(t, a + 5, <<"s">>) THEN a + 6 ELSE a + 5) ELSE 0
        u == SkipSet(t, b + 3, {t[k] : k \in 1..Len(t)} \ (Spaces \cup {"]"}))
        x == FindSet(t, u, {"]"})
    IN  IF b = 0 \/ ~At(t, b, <<":", "/", "/">>) \/ u > Len(t) THEN 0
        ELSE IF t[u] = "]" THEN u
        ELSE IF x <= Len(t) /\ x - u >= 2 THEN x
        ELSE 0

\* re.sub(r"\[https?://[^\]\s]*(?:\s+[^\]]+)?\]", "", t), line 229
RECURSIVE StripExtLinks(_)
StripExtLinks(t) ==
    LET m == {a \in 1..Len(t) : ExtLinkEnd(t, a) > 0}
        a == MinOf(m)
    IN  IF m = {} THEN t
        ELSE Sub(t, 1, a - 1) \o StripExtLinks(From(t, ExtLinkEnd(t, a) + 1))

\* where \[\[([^\]|]+\|)?([^\]]+)\]\] ends when it matches at position a
\* (the position of its last "]"), 0 when it does not match
WikiLinkEnd(t, a) ==
    LET r == FindSet(t, a + 2, {"]"})
    IN  IF At(t, a, <<"[", "[">>) /\ r > a + 2 /\ At(t, r, <<"]", "]">>)
        THEN r + 1 ELSE 0

\* group 2 of that match: the label after the first "|" when a target
\* precedes the bar and a label follows it, the whole inside otherwise
WikiLinkLabel(t, a) ==
    LET r == FindSet(t, a + 2, {"]"})
        inside == Sub(t, a + 2, r - 1)
        bar == FindSet(inside, 1, {"|"})
    IN  IF bar >= 2 /\ bar < Len(inside) THEN From(inside, bar + 1)
        ELSE inside

\* re.sub(r"\[\[([^\]|]+\|)?([^\]]+)\]\]", r"\2", t), line 230
RECURSIVE UnwrapWikiLinks(_)
UnwrapWikiLinks(t) ==
    LET m == {a \in 1..Len(t) : WikiLinkEnd(t, a) > 0}
        a == MinOf(m)
    IN  IF m = {} THEN t
        ELSE Sub(t, 1, a - 1) \o WikiLinkLabel(t, a)
             \o UnwrapWikiLinks(From(t, WikiLinkEnd(t, a) + 1))

\* re.sub(r"<.*?>", "", t), line 231: "." does not match a newline
\* where <.*?> ends when it matches at position a, 0 when it does not
TagEnd(t, a) ==
    LET g == FindSet(t, a + 1, {">", "\n"})
    IN  IF t[a] = "<" /\ g <= Len(t) /\ t[g] = ">" THEN g ELSE 0

RECURSIVE StripTags(_)
StripTags(t) ==
    LET m == {a \in 1..Len(t) : TagEnd(t, a) > 0}
        a == MinOf(m)
    IN  IF m = {} THEN t
        ELSE Sub(t, 1, a - 1) \o StripTags(From(t, TagEnd(t, a) + 1))

\* clean_markup(t), lines 228-232
clean_markup(t) == StripTags(UnwrapWikiLinks(StripExtLinks(t)))

-----------------------------------------------------------------------------
(* caseCollector.py: the identifier extractor                              *)

\* \b holds between positions a-1 and a of s
Boundary(s, a) ==
    LET before == a >= 2 /\ a - 1 <= Len(s) /\ IsWord(s[a - 1])
        after  == a >= 1 /\ a <= Len(s) /\ IsWord(s[a])
    IN  before # after

\* US_CITE_RE, line 88: \b\d+\s*U\.?\s*S\.?\s*\d+\b with re.I.  The position
\* after the match that starts at a, 0 when there is none.
UsCiteEnd(s, a) ==
    LET b == SkipSet(s, a, Digits)
        c == SkipSet(s, b, Spaces)
        e == SkipSet(s, SkipDot(s, c + 1), Spaces)
        g == SkipSet(s, SkipDot(s, e + 1), Spaces)
        h == SkipSet(s, g, Digits)
    IN  IF /\ Boundary(s, a) /\ b > a
           /\ Has(s, c, {"U", "u"})
           /\ Has(s, e, {"S", "s", "longs"})
           /\ h > g /\ Boundary(s, h)
        THEN h ELSE 0

\* US_CITE_RE.search(s).group(0), <<>> for no match (a match is never empty)
UsCiteIn(s) ==
    LET m == {a \in 1..Len(s) : UsCiteEnd(s, a) > 0}
    IN  IF m = {} THEN <<>> ELSE Sub(s, MinOf(m), UsCiteEnd(s, MinOf(m)) - 1)

Letters == Lowers \cup Uppers \cup FoldedLetters

\* the group of DOCKET_TOKEN_RE, lines 94-99, and the \b after it:
\*   \d{1,3}[-ndash mdash]\d{1,5}  |  \d{1,3}[A-Z]\d{1,4}   (re.I)
\* The position after the token that starts at g, 0 when there is none.
DocketGroupEnd(s, g) ==
    LET b == SkipSet(s, g, Digits)
        h == SkipSet(s, b + 1, Digits)
    IN  IF /\ b - g >= 1 /\ b - g <= 3
           /\ \/ Has(s, b, {"-"} \cup UniDashes) /\ h - (b + 1) >= 1
                                                 /\ h - (b + 1) <= 5
              \/ Has(s, b, Letters) /\ h - (b + 1) >= 1 /\ h - (b + 1) <= 4
           /\ Boundary(s, h)
        THEN h ELSE 0

\* where the group starts for a match of DOCKET_TOKEN_RE that starts at a:
\* after the optional prefix No\.?\s* (re.I)
DocketGroupStart(s, a) ==
    IF AtCI(s, a, <<"N", "o">>)
    THEN SkipSet(s, SkipDot(s, a + 2), Spaces)
    ELSE a

\* DOCKET_TOKEN_RE matches at position a
DocketTokenAt(s, a) ==
    Boundary(s, a) /\ DocketGroupEnd(s, DocketGroupStart(s, a)) > 0

\* DOCKET_TOKEN_RE.search(s).group(1), <<>> for no match
DocketTokenIn(s) ==
    LET m == {a \in 1..Len(s) : DocketTokenAt(s, a)}
        g == DocketGroupStart(s, MinOf(m))
    IN  IF m = {} THEN <<>> ELSE Sub(s, g, DocketGroupEnd(s, g) - 1)

\* the position after \|\s*<key>\s*=\s* when it matches at a, where the key
\* is one of keys; 0 when it does not match
FieldValueStart(s, a, keys) ==
    LET b == SkipSet(s, a + 1, Spaces)
        k == {key \in keys : At(s, b, key)}
        c == SkipSet(s, b + Len(CHOOSE key \in k : TRUE), Spaces)
    IN  IF Has(s, a, {"|"}) /\ k # {} /\ Has(s, c, {"="})
        THEN SkipSet(s, c + 1, Spaces) ELSE 0

\* the spellings of a key whose first n letters may be of either case
RECURSIVE KeySpellings(_, _)
KeySpellings(key, n) ==
    IF n = 0 THEN {key}
    ELSE LET rest == KeySpellings(Tail(key), n - 1)
         IN  {<<c>> \o r : c \in {Head(key), ToLower(Head(key))}, r \in rest}

\* [Cc]itations, line 243
CitationsKeys == KeySpellings(<<"C", "i", "t", "a", "t", "i", "o", "n", "s">>, 1)

\* [Uu][Ss][Vv]ol, line 259
USVolKeys == KeySpellings(<<"U", "S", "V", "o", "l">>, 3)

\* [Uu][Ss][Pp]age, line 260
USPageKeys == KeySpellings(<<"U", "S", "P", "a", "g", "e">>, 3)

\* [Dd]ocket, line 266
DocketKeys == KeySpellings(<<"D", "o", "c", "k", "e", "t">>, 1)

\* the lookahead of line 243 holds at position e:
\*   (?=\n\|\s*\w+\s*=|\n\}\}|$)
FieldStopsAt(s, e) ==
    LET p == SkipSet(s, e + 2, Spaces)
        q == SkipSet(s, p, WordChars)
        r == SkipSet(s, q, Spaces)
    IN  \/ e = Len(s) + 1
        \/ e = Len(s) /\ s[e] = "\n"
        \/ At(s, e, <<"\n", "}", "}">>)
        \/ At(s, e, <<"\n", "|">>) /\ q > p /\ Has(s, r, {"="})

\* the search of lines 242-245: <<>> for no match, else <<group 1>>
CitationsField(s) ==
    LET m == {a \in 1..Len(s) : FieldValueStart(s, a, CitationsKeys) > 0}
        d == FieldValueStart(s, MinOf(m), CitationsKeys)
        e == MinOf({x \in d..(Len(s) + 1) : FieldStopsAt(s, x)})
    IN  IF m = {} THEN <<>> ELSE <<Sub(s, d, e - 1)>>

\* group 1 of \|\s*<key>\s*=\s*([0-9]+), lines 259-260: <<>> for no match
NumberField(s, keys) ==
    LET m == {a \in 1..Len(s) :
                 /\ FieldValueStart(s, a, keys) > 0
                 /\ Has(s, FieldValueStart(s, a, keys), AsciiDigits)}
        d == FieldValueStart(s, MinOf(m), keys)
    IN  IF m = {} THEN <<>> ELSE Sub(s, d, SkipSet(s, d, AsciiDigits) - 1)

\* where group 1 of \|\s*[Dd]ocket\s*=\s*([^\n]+) starts for the match at a,
\* 0 when there is none.  \s* gives blanks back when it ran to the end of
\* the text: the group then starts at the last blank that is no newline.
DocketValueStart(s, a) ==
    LET d == FieldValueStart(s, a, DocketKeys)
        c == LastNonSpace(s, Len(s))
        back == {k \in (c + 1)..Len(s) : s[k] # "\n"}
    IN  IF d = 0 THEN 0
        ELSE IF d <= Len(s) THEN d
        ELSE IF back # {} THEN CHOOSE k \in back : \A j \in back : j <= k
        ELSE 0

\* the search of line 266: <<>> for no match, else <<group 1>>
DocketField(s) ==
    LET m == {a \in 1..Len(s) : DocketValueStart(s, a) > 0}
        d == DocketValueStart(s, MinOf(m))
    IN  IF m = {} THEN <<>>
        ELSE <<Sub(s, d, FindSet(s, d, {"\n"}) - 1)>>

\* "<volume> U.S. <page>", line 262
Synthesized(v, p) == v \o <<" ", "U", ".", "S", ".", " ">> \o p

\* extract_us_cite_and_docket with the test of line 258 lost: the volume
\* and page fields win over the citations field
ExtractVolPageFirst(box) ==
    LET box_clean == clean_markup(box)
        cit == CitationsField(box_clean)
        v   == NumberField(box_clean, USVolKeys)
        p   == NumberField(box_clean, USPageKeys)
        us1 == IF cit # <<>> THEN UsCiteIn(cit[1]) ELSE <<>>
        dk1 == IF cit # <<>> THEN DocketTokenIn(cit[1]) ELSE <<>>
        us2 == IF v # <<>> /\ p # <<>> THEN Synthesized(v, p) ELSE us1
        m_line == DocketField(box_clean)
        dk2 == IF dk1 = <<>> /\ m_line # <<>>
               THEN DocketTokenIn(m_line[1]) ELSE dk1
    IN  <<Strip(us2), Strip(DashesToHyphen(dk2))>>

\* extract_us_cite_and_docket(box), lines 235-274: <<us, docket>>
extract_us_cite_and_docket(box) ==
    LET box_clean == clean_markup(box)
        cit == CitationsField(box_clean)
        us1 == IF cit # <<>> THEN UsCiteIn(cit[1]) ELSE <<>>
        dk1 == IF cit # <<>> THEN DocketTokenIn(cit[1]) ELSE <<>>
        v   == NumberField(box_clean, USVolKeys)
        p   == NumberField(box_clean, USPageKeys)
        us2 == IF us1 = <<>> /\ v # <<>> /\ p # <<>>
               THEN Synthesized(v, p) ELSE us1
        m_line == DocketField(box_clean)
        dk2 == IF dk1 = <<>> /\ m_line # <<>>
               THEN DocketTokenIn(m_line[1]) ELSE dk1
    IN  <<Strip(us2), Strip(DashesToHyphen(dk2))>>

-----------------------------------------------------------------------------
(* The identifier extractor called on its own: template texts assembled    *)
(* from a citations line, volume and page lines and a docket line.         *)

FieldOpen == <<"\n", "|", " ">>
Equals    == <<" ", "=", " ">>
BoxOpen   == <<"{", "{", "S", "C", "O", "T", "U", "S", "C", "a", "s", "e">>
BoxClose  == <<"\n", "}", "}">>

KeyLower == <<"c", "i", "t", "a", "t", "i", "o", "n", "s">>
KeyTitle == <<"C", "i", "t", "a", "t", "i", "o", "n", "s">>
KeyUpper == <<"C", "I", "T", "A", "T", "I", "O", "N", "S">>
KeyMixed == <<"c", "I", "t", "a", "t", "i", "o", "n", "s">>

ValCite == <<"5", "2", "4", " ", "U", ".", "S", ".", " ", "2", "7", "4", " ",
             "(", "1", "9", "9", "8", ")">>
ValCiteDocket == <<"5", " ", "U", ".", "S", ".", " ", "7", ";", " ", "N", "o",
                   ".", " ", "1", "4", "-", "1", "0", "0", "7", "8">>
ValDocketOnly == <<"2", "2", "O", "1", "4", "1">>
ValNeither == <<"s", "e", "e", " ", "b", "e", "l", "o", "w">>
ValFolded == <<"5", "2", "4", "nbsp", "U", ".", "longs", ".", "nbsp", "2", "7",
               "4">>
ValLinked == <<"[", "[", "U", "S", "R", "|", "5", "2", "4", " ", "U", ".", "S",
               ".", " ", "2", "7", "4", "]", "]", "<", "b", "r", ">">>

CitationsValues == {ValCite, ValCiteDocket, ValDocketOnly, ValNeither,
                    ValLinked, ValFolded}
CitationsSpellings == {KeyLower, KeyTitle, KeyUpper, KeyMixed}

CitationsLine(key, value) == FieldOpen \o key \o Equals \o value

CitationsLines ==
    {<<>>} \cup {CitationsLine(k, v) : k \in CitationsSpellings,
                                       v \in CitationsValues}

VolPageBoth == <<"\n", "|", " ", "U", "S", "V", "o", "l", " ", "=", " ", "4",
                 "1", "0", "\n", "|", " ", "U", "S", "P", "a", "g", "e", " ",
                 "=", " ", "1", "1", "3">>
VolOnly == <<"\n", "|", " ", "U", "S", "V", "o", "l", " ", "=", " ", "4", "1",
             "0">>
VolNotNumeric == <<"\n", "|", " ", "u", "s", "v", "o", "l", " ", "=", " ", "x",
                   "\n", "|", " ", "U", "S", "P", "a", "g", "e", " ", "=", " ",
                   "1", "1", "3">>

VolPageLines == {<<>>, VolPageBoth, VolOnly, VolNotNumeric}

DocketLineNo == <<"\n", "|", " ", "d", "o", "c", "k", "e", "t", " ", "=", " ",
                  "N", "o", ".", " ", "7", "0", "ndash", "1", "8">>
DocketLineNone == <<"\n", "|", " ", "D", "o", "c", "k", "e", "t", " ", "=", " ",
                    "n", "/", "a">>

DocketLines == {<<>>, DocketLineNo, DocketLineNone}

BoxOf(c, vp, d) == BoxOpen \o c \o vp \o d \o BoxClose

ExtractInputs ==
    {BoxOf(c, vp, d) : c \in CitationsLines, vp \in VolPageLines,
                       d \in DocketLines}

\* one call of extract_us_cite_and_docket
CallExtract ==
    /\ fn = "idle"
    /\ fn' = "extract_us_cite_and_docket"
    /\ res' = extract_us_cite_and_docket(arg)
    /\ UNCHANGED <<arg, matchVars, collectVars>>

InitExtract ==
    /\ fn = "idle"
    /\ arg \in ExtractInputs
    /\ res = <<>>
    /\ MatchOff
    /\ CollectOff

NextExtract == CallExtract

\* the identifier extractor on every text of ExtractInputs
SpecExtract == InitExtract /\ [][NextExtract]_vars

Extracted == fn = "extract_us_cite_and_docket"

\* what each step of the chain finds in the cleaned text of the call
CitationsValue == CitationsField(clean_markup(arg))
CiteInCitations ==
    IF CitationsValue = <<>> THEN <<>> ELSE Strip(UsCiteIn(CitationsValue[1]))
DocketInCitations ==
    IF CitationsValue = <<>> THEN <<>>
    ELSE Strip(DashesToHyphen(DocketTokenIn(CitationsValue[1])))
VolumeValue == NumberField(clean_markup(arg), USVolKeys)
PageValue   == NumberField(clean_markup(arg), USPageKeys)
DocketValue == DocketField(clean_markup(arg))
DocketInDocket ==
    IF DocketValue = <<>> THEN <<>>
    ELSE Strip(DashesToHyphen(DocketTokenIn(DocketValue[1])))

ScenarioA == BoxOf(CitationsLine(KeyLower, ValCite), <<>>, <<>>)
ScenarioB == BoxOf(<<>>, <<>>, DocketLineNo)
AllThree  == BoxOf(CitationsLine(KeyLower, ValCiteDocket), VolPageBoth,
                   DocketLineNo)

\* C7: the priority chain of the extractor.  (1) A citation found in the
\* citations field is the returned usCite whatever the volume and page
\* fields hold.  (2) Otherwise usCite is "<volume> U.S. <page>" exactly when
\* both fields are present and numeric, else empty.  (3) A docket token found
\* in the citations field is the returned docket whatever the docket field
\* holds; otherwise the docket is the token of the docket field, else empty.
\* With no recognizable field both results are empty.  On the spec's
\* scenarios: "citations = 524 U.S. 274 (1998)" gives ("524 U.S. 274", "")
\* and "docket = No. 70-18" written with an en dash gives ("", "70-18").
PriorityChain ==
    Extracted =>
        /\ CiteInCitations # <<>> => res[1] = CiteInCitations
        /\ CiteInCitations = <<>> =>
              res[1] = IF VolumeValue # <<>> /\ PageValue # <<>>
                       THEN Synthesized(VolumeValue, PageValue) ELSE <<>>
        /\ DocketInCitations # <<>> => res[2] = DocketInCitations
        /\ DocketInCitations = <<>> => res[2] = DocketInDocket
        /\ (CitationsValue = <<>> /\ DocketValue = <<>>
              /\ (VolumeValue = <<>> \/ PageValue = <<>>)) =>
              res = <<<<>>, <<>>>>
        /\ arg = ScenarioA =>
              res = <<<<"5", "2", "4", " ", "U", ".", "S", ".", " ", "2", "7",
                        "4">>, <<>>>>
        /\ arg = ScenarioB => res = <<<<>>, <<"7", "0", "-", "1", "8">>>>
        /\ arg = AllThree =>
              res = <<<<"5", " ", "U", ".", "S", ".", " ", "7">>,
                      <<"1", "4", "-", "1", "0", "0", "7", "8">>>>

\* every field is present and the citations field wins both results
PriorityChainWitness ==
    /\ Extracted
    /\ arg = AllThree
    /\ VolumeValue # <<>> /\ PageValue # <<>> /\ DocketInDocket # <<>>
    /\ res[1] = CiteInCitations /\ res[1] # Synthesized(VolumeValue, PageValue)
    /\ res[2] = DocketInCitations /\ res[2] # DocketInDocket

\* the text with the first "citations" key, in any letter case, rewritten
\* in lower case
LowerKeyed(t) ==
    LET m == {a \in 1..Len(t) : AtCI(t, a, KeyLower)}
        a == MinOf(m)
    IN  IF m = {} THEN t
        ELSE Sub(t, 1, a - 1) \o KeyLower \o From(t, a + Len(KeyLower))

\* C8: whatever the letter case of the key "citations", a citation in the
\* field's value is the returned usCite, the same result as for the
\* lower-case key.
CitationsKeyAnyCase ==
    Extracted =>
        LET lower == extract_us_cite_and_docket(LowerKeyed(arg))
            value == CitationsField(clean_markup(LowerKeyed(arg)))
        IN  (value # <<>> /\ UsCiteIn(value[1]) # <<>>) =>
               /\ res[1] = Strip(UsCiteIn(value[1]))
               /\ res[1] = lower[1]

-----------------------------------------------------------------------------
(* caseCollector.py main(): batches of pages extracted on a thread pool,   *)
(* then one pageview task per collected row on a second pool.              *)

\* pages per batch (50 at line 354), scaled to the page lists of the model
BatchSize == 2
\* max_workers of the two pools (10 at line 359, 20 at line 372), scaled
BatchWorkers == 2
PageviewWorkers == 2
\* the longest page list
MaxPages == 4

PageBaker == <<"B", "a", "k", "e", "r", " ", "v", ".", " ", "C", "a", "r", "r">>
PageCertiorari == <<"C", "e", "r", "t", "i", "o", "r", "a", "r", "i">>
PageDoe == <<"D", "o", "e", " ", "v", ".", " ", "R", "o", "e">>
PageFoo == <<"F", "o", "o", " ", "v", ".", " ", "B", "a", "r">>
PageRoe == <<"R", "o", "e", " ", "v", ".", " ", "W", "a", "d", "e">>

\* an infobox whose citations field holds a citation
TextBaker == <<"{", "{", "S", "C", "O", "T", "U", "S", "C", "a", "s", "e", "|",
               "c", "i", "t", "a", "t", "i", "o", "n", "s", "=", "3", "6", "9",
               " ", "U", ".", "S", ".", " ", "1", "8", "6", "}", "}">>
\* no infobox
TextCertiorari == <<"n", "o", " ", "b", "o", "x", " ", "h", "e", "r", "e">>
\* an infobox without identifiers
TextDoe == <<"x", " ", "{", "{", "I", "n", "f", "o", "b", "o", "x", " ", "S",
             "C", "O", "T", "U", "S", " ", "c", "a", "s", "e", "\n", "|", " ",
             "L", "i", "t", "i", "g", "a", "n", "t", "s", " ", "=", " ", "D",
             "o", "e", "\n", "}", "}">>
\* an infobox with volume, page and docket fields
TextFoo == <<"{", "{", "S", "C", "O", "T", "U", "S", "C", "a", "s", "e", "\n",
             "|", " ", "U", "S", "V", "o", "l", " ", "=", " ", "4", "1", "0",
             "\n", "|", " ", "U", "S", "P", "a", "g", "e", " ", "=", " ", "1",
             "1", "3", "\n", "|", " ", "d", "o", "c", "k", "e", "t", " ", "=",
             " ", "7", "0", "-", "1", "8", "\n", "}", "}", " ", "y">>

\* the titles the template's embeddedin list can hold, in sorted order
PagePool == <<PageBaker, PageCertiorari, PageDoe, PageFoo, PageRoe>>

\* get_pages_with_infobox(), lines 154-179, on a server that lists the
\* titles of set S: sorted(pages)
get_pages_with_infobox(S) == SelectSeq(PagePool, LAMBDA t : t \in S)

\* the wikitext the wiki holds; it holds no page PageRoe
Encyclopedia ==
    (PageBaker :> TextBaker) @@ (PageCertiorari :> TextCertiorari)
        @@ (PageDoe :> TextDoe) @@ (PageFoo :> TextFoo)

\* the outcome of a call: the value it returns, or the exception it raises
Returning(v) == [raises |-> <<>>, value |-> v]
Raising(e) == [raises |-> e, value |-> <<>>]

\* a future that holds no outcome yet
Pending == Returning(<<>>)

\* what the API answers to one query once it no longer answers 429 (lines
\* 142-145 ask again): the status and, under 200, a body with the pages or
\* an error body without "query".  A title the wiki does not hold is listed
\* as missing, or left out of the body.
WikitextAnswers ==
    {[status |-> 200, body |-> "pages", unheld |-> u] :
        u \in {"missing", "omitted"}}
      \cup {[status |-> st, body |-> "error", unheld |-> "omitted"] :
              st \in {200, 403, 500}}

\* safe_get(params), lines 139-148: r.json(), or the HTTPError of
\* r.raise_for_status() at line 146
safe_get(answer) ==
    IF answer.status >= 400
    THEN Raising(<<"HTTPError",
                   IF answer.status = 403 THEN "403" ELSE "500">>)
    ELSE Returning(answer)

\* get_wikitext_batch(titles), lines 186-202: title -> content, "" for a
\* page listed without revisions; KeyError at line 199 for a body without
\* "query"
get_wikitext_batch(titles, answer) ==
    LET data == safe_get(answer)
        asked == {titles[k] : k \in DOMAIN titles}
        listed == IF answer.unheld = "missing" THEN asked
                  ELSE asked \cap DOMAIN Encyclopedia
    IN  IF data.raises # <<>> THEN data
        ELSE IF answer.body # "pages" THEN Raising(<<"KeyError", "query">>)
        ELSE Returning([t \in listed |->
                          IF t \in DOMAIN Encyclopedia THEN Encyclopedia[t]
                          ELSE <<>>])

\* the body of the loop of process_batch, lines 331-340: the row of title t
BatchRow(data, t) ==
    LET txt == IF t \in DOMAIN data THEN data[t] ELSE <<>>
        box == extract_infobox(txt)
        ids == IF box # <<>> THEN extract_us_cite_and_docket(box)
               ELSE <<<<>>, <<>>>>
    IN  <<t, ids[1], ids[2]>>

\* process_batch(titles), lines 327-342; what line 328 raises goes through
process_batch(titles, answer) ==
    LET data == get_wikitext_batch(titles, answer)
    IN  IF data.raises # <<>> THEN data
        ELSE Returning([k \in 1..Len(titles) |->
                          BatchRow(data.value, titles[k])])

\* sum(views)
RECURSIVE SumOf(_)
SumOf(views) ==
    IF views = <<>> THEN 0 ELSE views[1] + SumOf(Tail(views))

\* views[-n:]
LastOf(views, n) ==
    IF Len(views) <= n THEN views ELSE SubSeq(views, Len(views) - n + 1, Len(views))

\* the monthly views the pageview API holds for a title
ViewHistory(t) ==
    IF t = PageBaker THEN [k \in 1..13 |-> k]
    ELSE IF t = PageCertiorari THEN <<3>>
    ELSE IF t = PageDoe THEN [k \in 1..7 |-> 1]
    ELSE IF t = PageFoo THEN [k \in 1..12 |-> k]
    ELSE <<>>

\* what session.get of line 297 gives for a title: the history under 200,
\* another status, or an exception
PageviewAnswers(t) ==
    {[raises |-> FALSE, status |-> 200, items |-> ViewHistory(t)]}
      \cup {[raises |-> FALSE, status |-> st, items |-> <<>>] :
              st \in {429, 404}}
      \cup {[raises |-> TRUE, status |-> 0, items |-> <<>>]}

\* get_pageviews(title), lines 281-320, on the answer of line 297
get_pageviews(answer) ==
    IF answer.raises THEN <<0, 0, 0, 0>>
    ELSE IF answer.status = 429 THEN <<0, 0, 0, 0>>
    ELSE IF answer.status # 200 THEN <<0, 0, 0, 0>>
    ELSE IF answer.items = <<>> THEN <<0, 0, 0, 0>>
    ELSE LET views == answer.items
             all_time == SumOf(views)
             last_12 == IF Len(views) >= 12 THEN SumOf(LastOf(views, 12))
                        ELSE SumOf(views)
             last_6 == IF Len(views) >= 6 THEN SumOf(LastOf(views, 6))
                       ELSE SumOf(views)
             last_1 == views[Len(views)]
         IN  <<all_time, last_12, last_6, last_1>>

\* batches of line 354: batch b of the page list ps
NumBatches(ps) == (Len(ps) + BatchSize - 1) \div BatchSize
Batch(ps, b) ==
    SubSeq(ps, (b - 1) * BatchSize + 1,
           IF b * BatchSize < Len(ps) THEN b * BatchSize ELSE Len(ps))

\* the tasks of a pool in the given state
InState(states, st) == {k \in DOMAIN states : states[k] = st}

\* a pool of the given size starts its tasks in submission order
MayStart(states, k, workers) ==
    /\ InState(states, "queued") # {}
    /\ k = MinOf(InState(states, "queued"))
    /\ Cardinality(InState(states, "running")) < workers

\* all_rows.extend(rows) with the rows already collected lost
ExtendedOverwrite(rows, more) == more

\* all_rows.extend(rows), line 365
Extended(rows, more) == rows \o more

\* line 362, one pool.submit of the comprehension: the next batch is queued
SubmitBatch ==
    /\ cpc = "submit_batches"
    /\ Len(batch_state) < NumBatches(pages)
    /\ batch_state' = Append(batch_state, "queued")
    /\ batch_rows' = Append(batch_rows, Pending)
    /\ UNCHANGED <<pages, all_rows, pv_state, pv_result, final_rows, cpc,
                   matchVars, callVars>>

\* line 363: the comprehension is over, as_completed begins
AwaitBatches ==
    /\ cpc = "submit_batches"
    /\ Len(batch_state) = NumBatches(pages)
    /\ cpc' = "collect_batches"
    /\ UNCHANGED <<pages, batch_state, batch_rows, all_rows, pv_state,
                   pv_result, final_rows, matchVars, callVars>>

\* a worker of the first pool takes the next batch; the pool runs its
\* tasks while main() submits, collects, or leaves the with block on an
\* exception
StartBatch(b) ==
    /\ cpc \in {"submit_batches", "collect_batches", "failed"}
    /\ MayStart(batch_state, b, BatchWorkers)
    /\ batch_state' = [batch_state EXCEPT ![b] = "running"]
    /\ UNCHANGED <<pages, batch_rows, all_rows, pv_state, pv_result,
                   final_rows, cpc, matchVars, callVars>>

\* process_batch returns or raises in its worker
FinishBatch(b) ==
    /\ cpc \in {"submit_batches", "collect_batches", "failed"}
    /\ b \in InState(batch_state, "running")
    /\ batch_state' = [batch_state EXCEPT ![b] = "done"]
    /\ \E answer \in WikitextAnswers :
          batch_rows' = [batch_rows EXCEPT
                            ![b] = process_batch(Batch(pages, b), answer)]
    /\ UNCHANGED <<pages, all_rows, pv_state, pv_result, final_rows, cpc,
                   matchVars, callVars>>

\* lines 363-366: as_completed hands a finished batch to the main thread;
\* fut.result() at line 364 raises what the worker raised and main() ends
CollectBatch(b) ==
    /\ cpc = "collect_batches"
    /\ b \in InState(batch_state, "done")
    /\ batch_state' = [batch_state EXCEPT ![b] = "collected"]
    /\ IF batch_rows[b].raises # <<>>
       THEN cpc' = "failed" /\ UNCHANGED all_rows
       ELSE all_rows' = Extended(all_rows, batch_rows[b].value)
              /\ UNCHANGED cpc
    /\ UNCHANGED <<pages, batch_rows, pv_state, pv_result, final_rows,
                   matchVars, callVars>>

\* lines 368-372: every batch is collected; the second pool is opened
OpenPageviews ==
    /\ cpc = "collect_batches"
    /\ \A b \in DOMAIN batch_state : batch_state[b] = "collected"
    /\ cpc' = "submit_pageviews"
    /\ UNCHANGED <<pages, batch_state, batch_rows, all_rows, pv_state,
                   pv_result, final_rows, matchVars, callVars>>

\* lines 375-378, one pool.submit of the comprehension: the task of the
\* next row is queued
SubmitPageview ==
    /\ cpc = "submit_pageviews"
    /\ Len(pv_state) < Len(all_rows)
    /\ pv_state' = Append(pv_state, "queued")
    /\ pv_result' = Append(pv_result, <<>>)
    /\ UNCHANGED <<pages, batch_state, batch_rows, all_rows, final_rows,
                   cpc, matchVars, callVars>>

\* line 380: the comprehension is over, as_completed begins
AwaitPageviews ==
    /\ cpc = "submit_pageviews"
    /\ Len(pv_state) = Len(all_rows)
    /\ cpc' = "collect_pageviews"
    /\ UNCHANGED <<pages, batch_state, batch_rows, all_rows, pv_state,
                   pv_result, final_rows, matchVars, callVars>>

\* a worker of the second pool takes the next row
StartPageview(k) ==
    /\ cpc \in {"submit_pageviews", "collect_pageviews"}
    /\ MayStart(pv_state, k, PageviewWorkers)
    /\ pv_state' = [pv_state EXCEPT ![k] = "running"]
    /\ UNCHANGED <<pages, batch_state, batch_rows, all_rows, pv_result,
                   final_rows, cpc, matchVars, callVars>>

\* get_pageviews returns in its worker
FinishPageview(k) ==
    /\ cpc \in {"submit_pageviews", "collect_pageviews"}
    /\ k \in InState(pv_state, "running")
    /\ pv_state' = [pv_state EXCEPT ![k] = "done"]
    /\ \E answer \in PageviewAnswers(all_rows[k][1]) :
          pv_result' = [pv_result EXCEPT ![k] = get_pageviews(answer)]
    /\ UNCHANGED <<pages, batch_state, batch_rows, all_rows, final_rows, cpc,
                   matchVars, callVars>>

\* lines 380-387: as_completed hands a finished task to the main thread
CollectPageview(k) ==
    /\ cpc = "collect_pageviews"
    /\ k \in InState(pv_state, "done")
    /\ pv_state' = [pv_state EXCEPT ![k] = "collected"]
    /\ final_rows' = Append(final_rows, all_rows[k] \o pv_result[k])
    /\ UNCHANGED <<pages, batch_state, batch_rows, all_rows, pv_result, cpc,
                   matchVars, callVars>>

\* lines 389-400: every task is collected; the rows are written
WriteCsv ==
    /\ cpc = "collect_pageviews"
    /\ \A k \in DOMAIN pv_state : pv_state[k] = "collected"
    /\ cpc' = "done"
    /\ UNCHANGED <<pages, batch_state, batch_rows, all_rows, pv_state,
                   pv_result, final_rows, matchVars, callVars>>

\* the page lists of at most MaxPages titles line 351 can bind
PageLists ==
    {get_pages_with_infobox(S) :
        S \in {T \in SUBSET {PagePool[k] : k \in DOMAIN PagePool} :
                  Cardinality(T) <= MaxPages}}

\* main() at line 354, the page list fetched
InitCollect ==
    /\ pages \in PageLists
    /\ batch_state = <<>> /\ batch_rows = <<>> /\ all_rows = <<>>
    /\ pv_state = <<>> /\ pv_result = <<>> /\ final_rows = <<>>
    /\ cpc = "submit_batches"
    /\ MatchOff
    /\ CallOff

NextCollect ==
    \/ SubmitBatch
    \/ AwaitBatches
    \/ \E b \in DOMAIN batch_state :
          StartBatch(b) \/ FinishBatch(b) \/ CollectBatch(b)
    \/ OpenPageviews
    \/ SubmitPageview
    \/ AwaitPageviews
    \/ \E k \in DOMAIN pv_state :
          StartPageview(k) \/ FinishPageview(k) \/ CollectPageview(k)
    \/ WriteCsv

SpecCollect == InitCollect /\ [][NextCollect]_vars

\* the identifiers of each page of the pool, as extracted from its own text
OwnIdentifiers(t) ==
    IF t = PageBaker
    THEN <<<<"3", "6", "9", " ", "U", ".", "S", ".", " ", "1", "8", "6">>,
           <<>>>>
    ELSE IF t = PageFoo
    THEN <<<<"4", "1", "0", " ", "U", ".", "S", ".", " ", "1", "1", "3">>,
           <<"7", "0", "-", "1", "8">>>>
    ELSE <<<<>>, <<>>>>

RowsOfTitle(t) == {k \in DOMAIN final_rows : final_rows[k][1] = t}

TitlesOf(rows) == [k \in DOMAIN rows |-> rows[k][1]]

\* C10: collection is lossless and independent of the completion order.
\* When main() has written its rows, whatever the order in which the batch
\* workers and the pageview workers started, finished and were collected,
\* the rows hold every title of the page list exactly once and no other
\* title, each row with the citation and docket extracted from that
\* title's own text; a title without infobox, without identifiers or
\* without text is emitted with both fields empty.
CollectionLossless ==
    cpc = "done" =>
        /\ Len(final_rows) = Len(pages)
        /\ \A i \in DOMAIN pages :
              /\ Cardinality(RowsOfTitle(pages[i])) = 1
              /\ \A k \in RowsOfTitle(pages[i]) :
                    /\ Len(final_rows[k]) = 7
                    /\ <<final_rows[k][2], final_rows[k][3]>> =
                          OwnIdentifiers(pages[i])
                    /\ SubSeq(final_rows[k], 4, 7) \in
                          {get_pageviews(answer) :
                              answer \in PageviewAnswers(pages[i])}
        /\ \A k \in DOMAIN final_rows :
              \E i \in DOMAIN pages : final_rows[k][1] = pages[i]

\* a run of more than one batch whose rows were written in another order
\* than the page list: a row with identifiers after a row without, and the
\* row of a title the wiki holds no text for
CollectionLosslessWitness ==
    /\ cpc = "done"
    /\ NumBatches(pages) > 1
    /\ TitlesOf(final_rows) # pages
    /\ \E k \in DOMAIN final_rows :
          /\ final_rows[k][1] = PageBaker
          /\ final_rows[k][2] # <<>>
          /\ \E j \in 1..(k - 1) :
                final_rows[j][2] = <<>> /\ final_rows[j][3] = <<>>
    /\ \E k \in DOMAIN final_rows :
          /\ final_rows[k][1] = PageRoe
          /\ final_rows[k][2] = <<>> /\ final_rows[k][3] = <<>>

=============================================================================
